---- MODULE Spec2Model ----
(***************************************************************************)
(* Mood Journal: the server actions over the MoodJournalEntries and        *)
(* MoodPrompts tables.  Each handler is split at its store statements: a   *)
(* statement is atomic, the gap between two statements of one handler is   *)
(* not, so calls of different requests interleave between statements.      *)
(***************************************************************************)
EXTENDS Integers, Sequences, FiniteSets, TLC

\* ---------------------------------------------------------------- bounds

\* The clock runs over 0..MaxClock.
MaxClock == 1
\* crypto.randomUUID() is drawn at most MaxIds times.
MaxIds == 2
\* Ticks of the clock per calendar day.
TicksPerDay == 1

\* ---------------------------------------------------------------- values

\* JS null / SQL NULL, and JS undefined (a key that is present without a value).
\* Column values other than dates are modelled by their text; dates are clock ticks.
Null == "null"
Undefined == "undefined"
True == "true"
False == "false"

\* The requests in flight.
Procs == {1, 2}

\* The user ids the identity layer can resolve a request to.
Users == {"u1", "u2"}

\* The n-th value of crypto.randomUUID(): fresh, never repeated.
Uuid(n) == ToString(n)

\* The global prompts seeded by the system: one active, one inactive.
SeedPrompts ==
    {[id |-> "g1", userId |-> Null, title |-> "t", promptText |-> "q", category |-> Null,
      isSystem |-> True, isActive |-> True, createdAt |-> 0, updatedAt |-> 0],
     [id |-> "g2", userId |-> Null, title |-> "t", promptText |-> "q", category |-> Null,
      isSystem |-> True, isActive |-> False, createdAt |-> 0, updatedAt |-> 0]}

\* The ids a caller may name: every id that can be generated, and a seeded prompt's.
EntryIds == {Uuid(n) : n \in 1..MaxIds}
Ids == EntryIds \cup {"g1"}

\* new Date("YYYY-MM-DD"): midnight of that day on the clock ("day1" is day 1).
NewDate(s) == IF s = "day1" THEN TicksPerDay ELSE 0

\* The nullable columns of MoodJournalEntries, all patched by the same code.
NullableKeys == {"moodScore", "moodLabel", "tags", "title", "body", "promptId"}

VARIABLES
    entries,    \* table MoodJournalEntries: a set of rows
    prompts,    \* table MoodPrompts: a set of rows
    now,        \* the clock read by new Date()
    uuids,      \* how many ids crypto.randomUUID() has produced
    calls,      \* per request: the handler's position, inputs, locals and result
    lastWrite   \* history: the request whose statement last wrote MoodJournalEntries

vars == <<entries, prompts, now, uuids, calls, lastWrite>>

\* ---------------------------------------------------------------- store and language

\* eq(column, value): SQL equality, unknown when either side is NULL.
SqlEq(a, b) ==
    IF a = Null \/ b = Null THEN "unknown"
    ELSE IF a = b THEN "true" ELSE "false"

\* and(f, g) in SQL's three-valued logic.
SqlAnd(f, g) ==
    IF f = "false" \/ g = "false" THEN "false"
    ELSE IF f = "true" /\ g = "true" THEN "true" ELSE "unknown"

\* or(f, g) in SQL's three-valued logic.
SqlOr(f, g) ==
    IF f = "true" \/ g = "true" THEN "true"
    ELSE IF f = "false" /\ g = "false" THEN "false" ELSE "unknown"

\* A variant of SqlSet that replaces the row: a nullable column that updateData does
\* not name becomes null.
SqlSetReplacing(row, updateData) ==
    [k \in DOMAIN row |->
        IF k \in DOMAIN updateData
        THEN IF k \in {"entryDate", "createdAt", "updatedAt"} THEN updateData[k]
             ELSE IF updateData[k] = Undefined THEN row[k] ELSE updateData[k]
        ELSE IF k \in {"moodScore", "moodLabel", "tags", "title", "body", "promptId",
                       "category"}
             THEN Null
        ELSE row[k]]

\* .set(updateData) on one row: the named columns are overwritten; a key whose
\* value is undefined is left out of the statement.
SqlSet(row, updateData) ==
    [k \in DOMAIN row |->
        IF k \in DOMAIN updateData
        THEN IF k \in {"entryDate", "createdAt", "updatedAt"} THEN updateData[k]
             ELSE IF updateData[k] = Undefined THEN row[k] ELSE updateData[k]
        ELSE row[k]]

\* The orderings of `rows` by the date column `col`, descending (ties in any order).
OrderByDesc(rows, col) ==
    {s \in [1..Cardinality(rows) -> rows] :
        /\ \A i, j \in DOMAIN s : i # j => s[i] # s[j]
        /\ \A i, j \in DOMAIN s : i < j => s[i][col] >= s[j][col]}

\* .limit(n).offset(k) of an ordered result.
LimitOffset(s, n, k) ==
    IF k >= Len(s) THEN <<>>
    ELSE SubSeq(s, k + 1, IF k + n < Len(s) THEN k + n ELSE Len(s))

\* input.key, undefined when the key is absent
Get(input, k) == IF k \in DOMAIN input THEN input[k] ELSE Undefined

\* value ?? dflt
Coalesce(v, dflt) == IF v = Null \/ v = Undefined THEN dflt ELSE v

\* Object.hasOwn(input, key)
HasOwn(input, k) == k \in DOMAIN input

\* if (input.key), for a key that holds a non-empty string when it holds anything
Truthy(input, k) == Get(input, k) # Undefined /\ Get(input, k) # Null

\* ---------------------------------------------------------------- requests

\* A request context: locals may be missing, and locals.user may be missing.
Anonymous ==
    {[locals |-> FALSE, user |-> Undefined], [locals |-> TRUE, user |-> Undefined]}
SignedIn == {[locals |-> TRUE, user |-> u] : u \in Users}
Contexts == Anonymous \cup SignedIn

\* Partial records over the keys ks: each key absent, or present with a value of vals(k).
Partial(ks, vals(_)) ==
    UNION {{f \in [S -> UNION {vals(k) : k \in ks}] : \A k \in S : f[k] \in vals(k)} :
           S \in SUBSET ks}

\* An input that carries no key.
EmptyInput == [k \in {} |-> Null]

\* What a validated request may carry under a key of the entry schema.
EntryKeyInputs(k) ==
    IF k = "entryDate" THEN {"day1", Undefined} ELSE {Undefined, Null, "a"}

\* Validated inputs of createEntry, and patches of updateEntry: every combination of
\* the keys entryDate and title.
EntryInputs == Partial({"entryDate", "title"}, EntryKeyInputs)

\* Two of them that overlap on title and differ on entryDate.
RaceInputs == {[title |-> "a"], [title |-> Null, entryDate |-> "day1"]}

\* Inputs that name a record: an id out of `ids`, and a patch out of `patches`.
WithId(ids, patches) == {("id" :> i) @@ f : i \in ids, f \in patches}

\* The validated inputs of listEntries (page >= 1, 1 <= pageSize <= 100).
ListEntriesInputs == {[page |-> pg, pageSize |-> sz] : pg \in {1, 2, 3}, sz \in {1, 2}}

\* Validated inputs of createPrompt (title and promptText are required) and a patch of
\* updatePrompt.
FewPromptInputs ==
    {[title |-> "t", promptText |-> "q"],
     [title |-> "t", promptText |-> "q", isActive |-> False]}
FewPromptPatches == {[title |-> "t2", isActive |-> False]}

\* The validated inputs of listPrompts.
ListPromptsInputs == {EmptyInput, [includeInactive |-> True], [includeInactive |-> False]}

NoResult == [status |-> "none"]
Success(data) == [status |-> "success", data |-> data]
\* throw new ActionError({ code })
ActionError(code) == [status |-> code]

\* A request slot before its first call.
Idle ==
    [pc |-> "idle", op |-> "none", context |-> [locals |-> FALSE, user |-> Undefined],
     input |-> EmptyInput, local |-> <<>>, stmts |-> <<>>, result |-> NoResult]

\* A slot can take a new call when no handler is running in it.
Ready(p) == calls[p].pc \in {"idle", "done"}

\* A variant of HasUser that looks at locals alone.
HasLocals(context) == context.locals

\* requireUser(context): whether locals?.user is there.
HasUser(context) == context.locals /\ context.user # Undefined

\* The call ends: it returned `result` (or threw it) after issuing `stmts`; its
\* locals are gone.
Return(p, op, context, input, stmts, result) ==
    calls' = [calls EXCEPT ![p] =
                [pc |-> "done", op |-> op, context |-> context, input |-> input,
                 local |-> <<>>, stmts |-> stmts, result |-> result]]

\* The call is suspended at `pc`, with a statement still to run.
Await(p, pc, op, context, input, local, stmts) ==
    calls' = [calls EXCEPT ![p] =
                [pc |-> pc, op |-> op, context |-> context, input |-> input,
                 local |-> local, stmts |-> stmts, result |-> NoResult]]

\* requireUser throws: no statement was issued and nothing is written.
Unauthorized(p, op, context, input) ==
    /\ Return(p, op, context, input, <<>>, ActionError("UNAUTHORIZED"))
    /\ UNCHANGED <<entries, prompts, now, uuids, lastWrite>>

\* The requests other than p that have a write statement pending.
PendingWrites(p) == {q \in Procs \ {p} : calls[q].pc \in {"update", "delete"}}

\* No statement has written MoodJournalEntries yet.
NoWrite ==
    [by |-> 0, op |-> "none", pending |-> {}, raced |-> FALSE, again |-> {},
     repeated |-> FALSE]

\* History: p's statement is now the last write to MoodJournalEntries.  `pending` are
\* the requests it overtook; `raced` says that it was itself overtaken by the write
\* before it; `repeated` says that it repeats the call that made the write before it.
NoteWrite(p) ==
    lastWrite' = [by |-> p, op |-> calls[p].op, pending |-> PendingWrites(p),
                  raced |-> p \in lastWrite.pending, again |-> {},
                  repeated |-> p \in lastWrite.again]

\* Whether the call that made the last write was this very updateEntry call.
RepeatsLastWrite(context, input) ==
    \E q \in Procs :
        /\ lastWrite.by = q
        /\ calls[q].pc = "done"
        /\ calls[q].op = "updateEntry"
        /\ calls[q].result.status = "success"
        /\ calls[q].context = context
        /\ calls[q].input = input

\* History: `again` holds the requests whose pending updateEntry repeats the call
\* that made the last write.
NoteLoad(p, context, input) ==
    lastWrite' = [lastWrite EXCEPT !.again =
                    IF RepeatsLastWrite(context, input) THEN @ \cup {p} ELSE @ \ {p}]

\* ---------------------------------------------------------------- entries

\* and(eq(MoodJournalEntries.id, id), eq(MoodJournalEntries.userId, userId))
EntryFilter(e, id, userId) == SqlAnd(SqlEq(e.id, id), SqlEq(e.userId, userId))

\* A variant of SelectEntry that filters by id alone.
SelectEntryById(id, userId) == {e \in entries : SqlEq(e.id, id) = "true"}

\* A variant of SelectEntry that filters by userId alone.
SelectEntryOfUser(id, userId) == {e \in entries : SqlEq(e.userId, userId) = "true"}

\* select().from(MoodJournalEntries).where(and(eq(id), eq(userId)))
SelectEntry(id, userId) == {e \in entries : EntryFilter(e, id, userId) = "true"}

\* The row createEntry builds.
NewEntry(id, userId, input, t) ==
    [id |-> id,
     userId |-> userId,
     entryDate |-> IF Truthy(input, "entryDate") THEN NewDate(input["entryDate"]) ELSE t,
     moodScore |-> Coalesce(Get(input, "moodScore"), Null),
     moodLabel |-> Coalesce(Get(input, "moodLabel"), Null),
     tags |-> Coalesce(Get(input, "tags"), Null),
     title |-> Coalesce(Get(input, "title"), Null),
     body |-> Coalesce(Get(input, "body"), Null),
     promptId |-> Coalesce(Get(input, "promptId"), Null),
     createdAt |-> t,
     updatedAt |-> t]

\* createEntry: one insert; returns the row it built.
CreateEntry(p, context, input) ==
    /\ Ready(p)
    /\ IF ~HasUser(context) THEN Unauthorized(p, "createEntry", context, input)
       ELSE /\ uuids < MaxIds
            /\ LET entry == NewEntry(Uuid(uuids + 1), context.user, input, now)
               IN /\ entries' = entries \cup {entry}
                  /\ Return(p, "createEntry", context, input, <<"insert">>,
                            Success([entry |-> entry]))
            /\ uuids' = uuids + 1
            /\ lastWrite' = [by |-> p, op |-> "createEntry", pending |-> PendingWrites(p),
                             raced |-> FALSE, again |-> {}, repeated |-> FALSE]
            /\ UNCHANGED <<prompts, now>>

\* A variant of EntryUpdateData that does not ask whether the input has a key: every
\* nullable column is written, with null when the input gives nothing.
EntryUpdateDataDense(input, t) ==
    [k \in {"updatedAt"}
           \cup (IF Truthy(input, "entryDate") THEN {"entryDate"} ELSE {})
           \cup NullableKeys |->
        IF k = "updatedAt" THEN t
        ELSE IF k = "entryDate" THEN NewDate(input[k])
        ELSE Coalesce(Get(input, k), Null)]

\* updateData of updateEntry, stamped at t.
EntryUpdateData(input, t) ==
    [k \in {"updatedAt"}
           \cup (IF Truthy(input, "entryDate") THEN {"entryDate"} ELSE {})
           \cup {k \in NullableKeys : HasOwn(input, k)} |->
        IF k = "updatedAt" THEN t
        ELSE IF k = "entryDate" THEN NewDate(input[k])
        ELSE Coalesce(input[k], Null)]

\* A variant of UpdateEntryLoad that keeps the loaded row and writes all of it back,
\* with updateData on top.
UpdateEntryLoadRow(p, context, input) ==
    /\ Ready(p)
    /\ IF ~HasUser(context) THEN Unauthorized(p, "updateEntry", context, input)
       ELSE /\ IF SelectEntry(input.id, context.user) = {}
               THEN /\ Return(p, "updateEntry", context, input, <<"select">>,
                              ActionError("NOT_FOUND"))
                    /\ UNCHANGED lastWrite
               ELSE /\ \E existing \in SelectEntry(input.id, context.user) :
                         Await(p, "update", "updateEntry", context, input,
                               SqlSet(existing, EntryUpdateData(input, now)), <<"select">>)
                    /\ NoteLoad(p, context, input)
            /\ UNCHANGED <<entries, prompts, now, uuids>>

\* updateEntry up to its update statement: the ownership load, then updateData.
UpdateEntryLoad(p, context, input) ==
    /\ Ready(p)
    /\ IF ~HasUser(context) THEN Unauthorized(p, "updateEntry", context, input)
       ELSE /\ IF SelectEntry(input.id, context.user) = {}
               THEN /\ Return(p, "updateEntry", context, input, <<"select">>,
                              ActionError("NOT_FOUND"))
                    /\ UNCHANGED lastWrite
               ELSE /\ Await(p, "update", "updateEntry", context, input,
                             EntryUpdateData(input, now), <<"select">>)
                    /\ NoteLoad(p, context, input)
            /\ UNCHANGED <<entries, prompts, now, uuids>>

\* A variant of UpdateEntryWrite that inserts the row when no row matches.
UpdateEntryUpsert(p) ==
    /\ calls[p].pc = "update"
    /\ calls[p].op = "updateEntry"
    /\ LET c == calls[p]
           blank == [k \in {"id", "userId", "entryDate", "createdAt", "updatedAt"}
                            \cup NullableKeys |->
                        IF k = "id" THEN c.input.id
                        ELSE IF k = "userId" THEN c.context.user
                        ELSE IF k \in NullableKeys THEN Null
                        ELSE c.local["updatedAt"]]
       IN /\ entries' = IF \E e \in entries :
                               EntryFilter(e, c.input.id, c.context.user) = "true"
                        THEN {IF EntryFilter(e, c.input.id, c.context.user) = "true"
                              THEN SqlSet(e, c.local) ELSE e : e \in entries}
                        ELSE entries \cup {SqlSet(blank, c.local)}
          /\ Return(p, c.op, c.context, c.input, Append(c.stmts, "update"),
                    Success([id |-> c.input.id]))
    /\ NoteWrite(p)
    /\ UNCHANGED <<prompts, now, uuids>>

\* updateEntry's update statement, filtered by (id, userId), and its return.
UpdateEntryWrite(p) ==
    /\ calls[p].pc = "update"
    /\ calls[p].op = "updateEntry"
    /\ LET c == calls[p]
       IN /\ entries' = {IF EntryFilter(e, c.input.id, c.context.user) = "true"
                         THEN SqlSet(e, c.local) ELSE e : e \in entries}
          /\ Return(p, c.op, c.context, c.input, Append(c.stmts, "update"),
                    Success([id |-> c.input.id]))
    /\ NoteWrite(p)
    /\ UNCHANGED <<prompts, now, uuids>>

\* deleteEntry up to its delete statement: the ownership load.
DeleteEntryLoad(p, context, input) ==
    /\ Ready(p)
    /\ IF ~HasUser(context) THEN Unauthorized(p, "deleteEntry", context, input)
       ELSE /\ IF SelectEntry(input.id, context.user) = {}
               THEN Return(p, "deleteEntry", context, input, <<"select">>,
                           ActionError("NOT_FOUND"))
               ELSE Await(p, "delete", "deleteEntry", context, input, <<>>, <<"select">>)
            /\ UNCHANGED <<entries, prompts, now, uuids, lastWrite>>

\* deleteEntry's delete statement, filtered by (id, userId), and its return.
DeleteEntryWrite(p) ==
    /\ calls[p].pc = "delete"
    /\ LET c == calls[p]
       IN /\ entries' = {e \in entries :
                           EntryFilter(e, c.input.id, c.context.user) # "true"}
          /\ Return(p, c.op, c.context, c.input, Append(c.stmts, "delete"),
                    Success(<<>>))
    /\ NoteWrite(p)
    /\ UNCHANGED <<prompts, now, uuids>>

\* getEntry: one select filtered by (id, userId).
GetEntry(p, context, input) ==
    /\ Ready(p)
    /\ IF ~HasUser(context) THEN Unauthorized(p, "getEntry", context, input)
       ELSE /\ LET found == SelectEntry(input.id, context.user)
               IN IF found = {}
                  THEN Return(p, "getEntry", context, input, <<"select">>,
                              ActionError("NOT_FOUND"))
                  ELSE \E entry \in found :
                         Return(p, "getEntry", context, input, <<"select">>,
                                Success([entry |-> entry]))
            /\ UNCHANGED <<entries, prompts, now, uuids, lastWrite>>

\* A variant of Offset that counts pages from zero.
OffsetFromZero(input) == input.page * input.pageSize

\* (page - 1) * pageSize
Offset(input) == (input.page - 1) * input.pageSize

\* The rows of MoodJournalEntries where eq(userId, user.id).
EntriesOf(userId) == {e \in entries : SqlEq(e.userId, userId) = "true"}

\* The response of listEntries once both of its queries have answered.
ListEntriesResult(input, local) ==
    Success([items |-> local.items, total |-> local.total,
             page |-> input.page, pageSize |-> input.pageSize])

\* One query of listEntries has answered: the call returns when both have.
ListEntriesAnswer(p, local, stmt) ==
    LET c == calls[p]
    IN IF local.waiting = {}
       THEN Return(p, c.op, c.context, c.input, Append(c.stmts, stmt),
                   ListEntriesResult(c.input, local))
       ELSE Await(p, "list", c.op, c.context, c.input, local, Append(c.stmts, stmt))

\* listEntries up to Promise.all: both queries are issued, neither has run.
ListEntriesCall(p, context, input) ==
    /\ Ready(p)
    /\ IF ~HasUser(context) THEN Unauthorized(p, "listEntries", context, input)
       ELSE /\ Await(p, "list", "listEntries", context, input,
                     [waiting |-> {"items", "total"}, items |-> <<>>, total |-> 0], <<>>)
            /\ UNCHANGED <<entries, prompts, now, uuids, lastWrite>>

\* The page query of listEntries: ordered by entryDate descending, limit, offset.
ListEntriesItems(p) ==
    /\ calls[p].pc = "list"
    /\ "items" \in calls[p].local.waiting
    /\ LET c == calls[p]
       IN \E s \in OrderByDesc(EntriesOf(c.context.user), "entryDate") :
            ListEntriesAnswer(p,
                [c.local EXCEPT !.waiting = @ \ {"items"},
                                !.items = LimitOffset(s, c.input.pageSize, Offset(c.input))],
                "select-page")
    /\ UNCHANGED <<entries, prompts, now, uuids, lastWrite>>

\* The count query of listEntries: the ids of all rows of the caller; total is its length.
ListEntriesTotal(p) ==
    /\ calls[p].pc = "list"
    /\ "total" \in calls[p].local.waiting
    /\ LET c == calls[p]
       IN ListEntriesAnswer(p,
            [c.local EXCEPT !.waiting = @ \ {"total"},
                            !.total = Cardinality({e.id : e \in EntriesOf(c.context.user)})],
            "select-ids")
    /\ UNCHANGED <<entries, prompts, now, uuids, lastWrite>>

\* ---------------------------------------------------------------- prompts

\* A variant of PromptFilter that filters by id alone.
PromptFilterById(r, id, userId) == SqlEq(r.id, id)

\* and(eq(MoodPrompts.id, id), eq(MoodPrompts.userId, userId))
PromptFilter(r, id, userId) == SqlAnd(SqlEq(r.id, id), SqlEq(r.userId, userId))

\* select().from(MoodPrompts).where(and(eq(id), eq(userId)))
SelectPrompt(id, userId) == {r \in prompts : PromptFilter(r, id, userId) = "true"}

\* The row createPrompt builds.
NewPrompt(id, userId, input, t) ==
    [id |-> id,
     userId |-> userId,
     title |-> input.title,
     promptText |-> input.promptText,
     category |-> Coalesce(Get(input, "category"), Null),
     isSystem |-> False,
     isActive |-> Coalesce(Get(input, "isActive"), True),
     createdAt |-> t,
     updatedAt |-> t]

\* createPrompt: one insert; returns the row it built.
CreatePrompt(p, context, input) ==
    /\ Ready(p)
    /\ IF ~HasUser(context) THEN Unauthorized(p, "createPrompt", context, input)
       ELSE /\ uuids < MaxIds
            /\ LET prompt == NewPrompt(Uuid(uuids + 1), context.user, input, now)
               IN /\ prompts' = prompts \cup {prompt}
                  /\ Return(p, "createPrompt", context, input, <<"insert">>,
                            Success([prompt |-> prompt]))
            /\ uuids' = uuids + 1
            /\ UNCHANGED <<entries, now, lastWrite>>

\* updateData of updatePrompt, stamped at t.
PromptUpdateData(input, t) ==
    [k \in {"updatedAt"}
           \cup {k \in {"title", "promptText"} : Truthy(input, k)}
           \cup {k \in {"category", "isActive"} : HasOwn(input, k)} |->
        IF k = "updatedAt" THEN t
        ELSE IF k = "category" THEN Coalesce(input[k], Null)
        ELSE input[k]]

\* updatePrompt up to its update statement: the ownership load, then updateData.
UpdatePromptLoad(p, context, input) ==
    /\ Ready(p)
    /\ IF ~HasUser(context) THEN Unauthorized(p, "updatePrompt", context, input)
       ELSE /\ IF SelectPrompt(input.id, context.user) = {}
               THEN Return(p, "updatePrompt", context, input, <<"select">>,
                           ActionError("NOT_FOUND"))
               ELSE Await(p, "update", "updatePrompt", context, input,
                          PromptUpdateData(input, now), <<"select">>)
            /\ UNCHANGED <<entries, prompts, now, uuids, lastWrite>>

\* updatePrompt's update statement, filtered by (id, userId), and its return.
UpdatePromptWrite(p) ==
    /\ calls[p].pc = "update"
    /\ calls[p].op = "updatePrompt"
    /\ LET c == calls[p]
       IN /\ prompts' = {IF PromptFilter(r, c.input.id, c.context.user) = "true"
                         THEN SqlSet(r, c.local) ELSE r : r \in prompts}
          /\ Return(p, c.op, c.context, c.input, Append(c.stmts, "update"),
                    Success([id |-> c.input.id]))
    /\ UNCHANGED <<entries, now, uuids, lastWrite>>

\* or(eq(MoodPrompts.userId, user.id), eq(MoodPrompts.userId, null))
OwnershipFilter(r, userId) == SqlOr(SqlEq(r.userId, userId), SqlEq(r.userId, Null))

\* eq(MoodPrompts.isActive, true)
ActiveFilter(r) == SqlEq(r.isActive, True)

\* input.includeInactive ? ownershipFilter : and(activeFilter, ownershipFilter)
CombinedFilter(r, userId, input) ==
    IF Get(input, "includeInactive") = True
    THEN OwnershipFilter(r, userId)
    ELSE SqlAnd(ActiveFilter(r), OwnershipFilter(r, userId))

\* listPrompts: one select, ordered by createdAt descending.
ListPrompts(p, context, input) ==
    /\ Ready(p)
    /\ IF ~HasUser(context) THEN Unauthorized(p, "listPrompts", context, input)
       ELSE /\ \E s \in OrderByDesc({r \in prompts :
                                       CombinedFilter(r, context.user, input) = "true"},
                                    "createdAt") :
                 Return(p, "listPrompts", context, input, <<"select">>,
                        Success([items |-> s, total |-> Len(s)]))
            /\ UNCHANGED <<entries, prompts, now, uuids, lastWrite>>

\* ---------------------------------------------------------------- the system

\* The clock advances.
Tick ==
    /\ now < MaxClock
    /\ now' = now + 1
    /\ UNCHANGED <<entries, prompts, uuids, calls, lastWrite>>

Init ==
    /\ entries = {}
    /\ prompts = SeedPrompts
    /\ now = 0
    /\ uuids = 0
    /\ calls = [p \in Procs |-> Idle]
    /\ lastWrite = NoWrite

\* createEntry, called in the slots P with contexts C and inputs I.
CreateNext(P, C, I) ==
    \E p \in P, context \in C, input \in I : CreateEntry(p, context, input)

\* updateEntry, called in the slots P with contexts C, ids N and patches I.
UpdateNext(P, C, N, I) ==
    \/ \E p \in P, context \in C, input \in WithId(N, I) : UpdateEntryLoad(p, context, input)
    \/ \E p \in P : UpdateEntryWrite(p)

\* deleteEntry, called in the slots P with contexts C and ids N.
DeleteNext(P, C, N) ==
    \/ \E p \in P, context \in C, input \in WithId(N, {EmptyInput}) :
         DeleteEntryLoad(p, context, input)
    \/ \E p \in P : DeleteEntryWrite(p)

\* getEntry, called in the slots P with contexts C and ids N.
GetNext(P, C, N) ==
    \E p \in P, context \in C, input \in WithId(N, {EmptyInput}) : GetEntry(p, context, input)

\* listEntries, called in the slots P with contexts C and inputs I.
ListNext(P, C, I) ==
    \/ \E p \in P, context \in C, input \in I : ListEntriesCall(p, context, input)
    \/ \E p \in P : ListEntriesItems(p)
    \/ \E p \in P : ListEntriesTotal(p)

\* The prompt operations, called in the slots P with contexts C, inputs I, patches J.
PromptNext(P, C, I, J) ==
    \/ \E p \in P, context \in C, input \in I : CreatePrompt(p, context, input)
    \/ \E p \in P, context \in C, input \in WithId(Ids, J) :
         UpdatePromptLoad(p, context, input)
    \/ \E p \in P : UpdatePromptWrite(p)
    \/ \E p \in P, context \in C, input \in ListPromptsInputs :
         ListPrompts(p, context, input)

\* Every operation, one request at a time, signed in or not.
Next ==
    \/ Tick
    \/ CreateNext({1}, Contexts, {EmptyInput})
    \/ UpdateNext({1}, Contexts, Ids, {[title |-> "a"]})
    \/ DeleteNext({1}, Contexts, Ids)
    \/ GetNext({1}, Contexts, Ids)
    \/ ListNext({1}, Contexts, {[page |-> 1, pageSize |-> 1]})
    \/ PromptNext({1}, Contexts, FewPromptInputs, FewPromptPatches)

Spec == Init /\ [][Next]_vars

\* The entry operations with every field input, one request at a time.
NextEntries ==
    \/ Tick
    \/ CreateNext({1}, SignedIn, EntryInputs)
    \/ UpdateNext({1}, SignedIn, EntryIds, EntryInputs)
    \/ DeleteNext({1}, SignedIn, EntryIds)
    \/ GetNext({1}, SignedIn, EntryIds)

SpecEntries == Init /\ [][NextEntries]_vars

\* listEntries in one request while another creates and deletes entries of various dates.
NextList ==
    \/ Tick
    \/ CreateNext({1}, SignedIn, {EmptyInput, [entryDate |-> "day1"]})
    \/ DeleteNext({1}, SignedIn, EntryIds)
    \/ ListNext({2}, SignedIn, ListEntriesInputs)

SpecList == Init /\ [][NextList]_vars

\* Requests racing to update and delete entries.
NextRace ==
    \/ Tick
    \/ CreateNext({1}, SignedIn, RaceInputs)
    \/ UpdateNext(Procs, SignedIn, EntryIds, RaceInputs)
    \/ DeleteNext(Procs, SignedIn, EntryIds)

SpecRace == Init /\ [][NextRace]_vars

\* ---------------------------------------------------------------- properties

\* A call starts in slot p in this step (a single-statement call also returns in it).
Begins(p) == Ready(p) /\ calls'[p] # calls[p]

\* The update statement of an updateEntry call in slot p runs in this step.
UpdateStep(p) ==
    calls[p].pc = "update" /\ calls[p].op = "updateEntry" /\ calls'[p].pc = "done"

\* The delete statement of a deleteEntry call in slot p runs in this step.
DeleteStep(p) == calls[p].pc = "delete" /\ calls'[p].pc = "done"

\* The row of `table` that call c names and its caller owns, if there is one.
Owned(table, c) == {r \in table : r.id = c.input.id /\ r.userId = c.context.user}

\* The rows of `table` that call c names and its caller does not own.
Foreign(table, c) == {r \in table : r.id = c.input.id /\ r.userId # c.context.user}

\* Whether a patch names column k: entryDate when it carries a date, a nullable
\* column when it carries the key.
Names(input, k) ==
    IF k = "entryDate" THEN "entryDate" \in DOMAIN input /\ input[k] = "day1"
    ELSE k \in DOMAIN input

\* The value a patch that names column k gives it.
Given(input, k) ==
    IF k = "entryDate" THEN TicksPerDay
    ELSE IF input[k] = "a" THEN "a" ELSE Null

PatchableKeys == {"entryDate"} \cup NullableKeys

\* C1: getEntry on an entry that another user owns fails with NOT_FOUND, and a record
\* that getEntry returns is owned by its caller; the owner of an entry never changes.
C1_ForeignGetNotFound ==
    [][/\ \A p \in Procs :
            (Begins(p) /\ calls'[p].op = "getEntry" /\ calls'[p].context \in SignedIn) =>
                LET c == calls'[p]
                IN /\ c.pc = "done"
                   /\ Foreign(entries, c) # {} => c.result = ActionError("NOT_FOUND")
                   /\ c.result.status = "success" =>
                        /\ c.result.data.entry.userId = c.context.user
                        /\ c.result.data.entry.id = c.input.id
       /\ \A e \in entries, e2 \in entries' : e.id = e2.id => e.userId = e2.userId
      ]_vars

\* A signed-in user asked for another user's entry and got NOT_FOUND.
C1_Witness ==
    \E p \in Procs :
        /\ calls[p].pc = "done"
        /\ calls[p].op = "getEntry"
        /\ calls[p].context \in SignedIn
        /\ Foreign(entries, calls[p]) # {}
        /\ calls[p].result = ActionError("NOT_FOUND")

\* C2: updateEntry or deleteEntry on another user's entry, and updatePrompt on another
\* user's prompt or on a global prompt, fail with NOT_FOUND and write nothing.
C2_ForeignWriteRejected ==
    [][\A p \in Procs :
          (Begins(p) /\ calls'[p].context \in SignedIn) =>
              LET c == calls'[p]
                  rejected == /\ c.pc = "done"
                              /\ c.result = ActionError("NOT_FOUND")
                              /\ entries' = entries
                              /\ prompts' = prompts
              IN /\ (c.op \in {"updateEntry", "deleteEntry"} /\ Foreign(entries, c) # {})
                       => rejected
                 /\ (c.op = "updatePrompt" /\ Foreign(prompts, c) # {}) => rejected
      ]_vars

\* A signed-in user tried to update another user's prompt and got NOT_FOUND.
C2_Witness ==
    \E p \in Procs :
        /\ calls[p].pc = "done"
        /\ calls[p].op = "updatePrompt"
        /\ calls[p].context \in SignedIn
        /\ \E r \in Foreign(prompts, calls[p]) : r.userId \in Users
        /\ calls[p].result = ActionError("NOT_FOUND")

\* C3: a call whose context carries no user fails with UNAUTHORIZED at once: it issues
\* no statement, the tables are unchanged and no id is drawn.
C3_AnonymousRejected ==
    [][\A p \in Procs :
          (Begins(p) /\ calls'[p].context \in Anonymous) =>
              /\ calls'[p].pc = "done"
              /\ calls'[p].result = ActionError("UNAUTHORIZED")
              /\ calls'[p].stmts = <<>>
              /\ entries' = entries
              /\ prompts' = prompts
              /\ uuids' = uuids
      ]_vars

\* An anonymous updateEntry on an entry that exists was rejected.
C3_Witness ==
    \E p \in Procs :
        /\ calls[p].pc = "done"
        /\ calls[p].op = "updateEntry"
        /\ calls[p].context \in Anonymous
        /\ \E e \in entries : e.id = calls[p].input.id
        /\ calls[p].result = ActionError("UNAUTHORIZED")

\* C4: listPrompts of a signed-in user returns a global prompt exactly when the prompt
\* is active or includeInactive is true.
C4_GlobalPromptListed ==
    \A p \in Procs :
        (calls[p].pc = "done" /\ calls[p].op = "listPrompts"
            /\ calls[p].context \in SignedIn) =>
            /\ calls[p].result.status = "success"
            /\ \A g \in prompts :
                 g.userId = Null =>
                    ((\E i \in DOMAIN calls[p].result.data.items :
                          calls[p].result.data.items[i] = g)
                      <=> (g.isActive = True \/ [includeInactive |-> True] = calls[p].input))

\* The row that the update statement of call c makes of row e: each column the patch
\* names holds the patch's value, updatedAt holds the time the call read, every other
\* column is as it was.
PatchedRow(e, c) ==
    [k \in DOMAIN e |->
        IF k = "updatedAt" THEN c.local["updatedAt"]
        ELSE IF k \in PatchableKeys /\ Names(c.input, k) THEN Given(c.input, k)
        ELSE e[k]]

\* C5: the update statement of a successful updateEntry overwrites the columns its
\* patch names (a key without a value, or with null, stores null), sets updatedAt to
\* the time the call read, which is not before the stored one, and leaves every
\* other column, every other entry and every prompt as they were.
C5_UpdateFrame ==
    [][\A p \in Procs :
          (UpdateStep(p) /\ Owned(entries, calls[p]) # {}) =>
              LET c == calls[p]
              IN /\ calls'[p].result = Success([id |-> c.input.id])
                 /\ entries' = (entries \ Owned(entries, c))
                                 \cup {PatchedRow(e, c) : e \in Owned(entries, c)}
                 /\ \A e \in Owned(entries, c) : c.local["updatedAt"] >= e.updatedAt
                 /\ prompts' = prompts
      ]_vars

\* An update that named entryDate and not title has run on an entry with a title.
C5_Witness ==
    \E p \in Procs :
        /\ calls[p].pc = "done"
        /\ calls[p].op = "updateEntry"
        /\ calls[p].result.status = "success"
        /\ lastWrite.by = p
        /\ Names(calls[p].input, "entryDate")
        /\ ~Names(calls[p].input, "title")
        /\ \E e \in Owned(entries, calls[p]) :
             /\ e.title = "a"
             /\ e.entryDate = TicksPerDay
             /\ e.updatedAt > e.createdAt
        /\ \E e \in entries : e.id # calls[p].input.id

\* The entries as they are but for the updatedAt of the row call c names.
Restamped(c) ==
    (entries \ Owned(entries, c))
        \cup {[e EXCEPT !.updatedAt = c.local["updatedAt"]] : e \in Owned(entries, c)}

\* C7: the update statement of an updateEntry whose patch has no field changes only
\* updatedAt of the entry, and so does the update statement of an updateEntry that
\* repeats the call which made the last write (same caller, id and patch).
C7_PatchIdempotent ==
    [][\A p \in Procs :
          UpdateStep(p) =>
              /\ DOMAIN calls[p].input = {"id"} => entries' = Restamped(calls[p])
              /\ p \in lastWrite.again => entries' = Restamped(calls[p])
      ]_vars

\* A patch that names a field has been applied twice in a row.
C7_Witness ==
    \E p \in Procs :
        /\ lastWrite.by = p
        /\ lastWrite.op = "updateEntry"
        /\ lastWrite.repeated
        /\ calls[p].pc = "done"
        /\ Names(calls[p].input, "title")
        /\ Names(calls[p].input, "entryDate")
        /\ \E e \in Owned(entries, calls[p]) : e.title = "a" /\ e.updatedAt > e.createdAt

\* The row createEntry is to store for `input`: the given date or the creation time,
\* the given values, null for every field left out.
CreatedRow(r, c) ==
    /\ r.userId = c.context.user
    /\ r.createdAt = r.updatedAt
    /\ r.entryDate = IF Names(c.input, "entryDate") THEN TicksPerDay ELSE r.createdAt
    /\ \A k \in NullableKeys :
         r[k] = IF Names(c.input, k) THEN Given(c.input, k) ELSE Null

\* C8: getEntry by the same user, right after createEntry and with the id from its
\* response, returns the record that createEntry returned, which holds the given
\* values, the creation time, and null for every field left out.
C8_CreateGetRoundTrip ==
    [][\A p \in Procs :
          (/\ calls[p].pc = "done"
           /\ calls[p].op = "createEntry"
           /\ calls[p].result.status = "success"
           /\ lastWrite.by = p
           /\ Begins(p)
           /\ calls'[p].op = "getEntry"
           /\ calls'[p].context = calls[p].context
           /\ calls'[p].input.id = calls[p].result.data.entry.id) =>
              /\ calls'[p].result = Success([entry |-> calls[p].result.data.entry])
              /\ CreatedRow(calls[p].result.data.entry, calls[p])
      ]_vars

\* getEntry returned a record created with a date and without a title.
C8_Witness ==
    \E p \in Procs :
        /\ calls[p].pc = "done"
        /\ calls[p].op = "getEntry"
        /\ calls[p].result.status = "success"
        /\ lastWrite.by = p
        /\ lastWrite.op = "createEntry"
        /\ calls[p].result.data.entry.title = Null
        /\ calls[p].result.data.entry.entryDate = TicksPerDay
        /\ calls[p].result.data.entry.createdAt < TicksPerDay

\* The number of rows of `rows` dated after d, and dated d or after.
After(rows, d) == Cardinality({e \in rows : e.entryDate > d})
NotBefore(rows, d) == Cardinality({e \in rows : e.entryDate >= d})

\* Whether `items` is the page of `rows` at offset k with at most n rows, by entryDate
\* descending: rows of `rows`, none twice, as many as the window holds, each at a
\* place that its date allows.
IsPage(items, rows, n, k) ==
    /\ \A i \in DOMAIN items : items[i] \in rows
    /\ \A i, j \in DOMAIN items : i # j => items[i] # items[j]
    /\ Len(items) = IF Cardinality(rows) <= k THEN 0
                    ELSE IF Cardinality(rows) - k < n THEN Cardinality(rows) - k ELSE n
    /\ \A i \in DOMAIN items :
         /\ After(rows, items[i].entryDate) < k + i
         /\ k + i <= NotBefore(rows, items[i].entryDate)

\* The items and the total that a listEntries call holds.
ItemsOf(c) == IF c.pc = "done" THEN c.result.data.items ELSE c.local.items
TotalOf(c) == IF c.pc = "done" THEN c.result.data.total ELSE c.local.total

\* The queries of listEntries that have not answered.
Waiting(c) == IF c.pc = "list" THEN c.local.waiting ELSE {}

\* C6: the page query of listEntries answers with the page of the caller's entries at
\* offset (page - 1) * pageSize, by entryDate descending; the count query answers
\* with the number of the caller's entries; the response carries both.
C6_ListPage ==
    [][\A p \in Procs :
          LET c == calls[p]
              mine == {e \in entries : e.userId = c.context.user}
          IN /\ ("items" \in Waiting(c) /\ "items" \notin Waiting(calls'[p])) =>
                   /\ IsPage(ItemsOf(calls'[p]), mine, c.input.pageSize,
                             (c.input.page - 1) * c.input.pageSize)
                   /\ "total" \notin Waiting(c) => TotalOf(calls'[p]) = TotalOf(c)
             /\ ("total" \in Waiting(c) /\ "total" \notin Waiting(calls'[p])) =>
                   /\ TotalOf(calls'[p]) = Cardinality(mine)
                   /\ "items" \notin Waiting(c) => ItemsOf(calls'[p]) = ItemsOf(c)
             /\ (c.pc = "list" /\ calls'[p].pc = "done") =>
                   /\ calls'[p].result.status = "success"
                   /\ calls'[p].result.data.page = c.input.page
                   /\ calls'[p].result.data.pageSize = c.input.pageSize
      ]_vars

\* Page 2 of size 1 over two entries of the caller: one item, the older, total 2.
C6_Witness ==
    \E p \in Procs :
        /\ calls[p].pc = "done"
        /\ calls[p].op = "listEntries"
        /\ calls[p].input = [page |-> 2, pageSize |-> 1]
        /\ calls[p].result.data.total = 2
        /\ Len(calls[p].result.data.items) = 1
        /\ \E e \in entries :
             /\ e.userId = calls[p].context.user
             /\ e.entryDate > calls[p].result.data.items[1].entryDate

\* C9: when an updateEntry overtakes another updateEntry of the same caller on the
\* same entry (both had loaded before either wrote), the overtaken statement, which
\* runs last, decides every column it names; a column only the first statement named
\* keeps that statement's value; the owner is as it was.  Every update statement
\* returns success and leaves the entries of other users as they were.
C9_LastWriteWins ==
    [][\A p \in Procs :
          UpdateStep(p) =>
              LET c == calls[p]
              IN /\ calls'[p].result = Success([id |-> c.input.id])
                 /\ \A e \in entries : e.userId # c.context.user => e \in entries'
                 /\ \A q \in Procs \ {p} :
                      (/\ lastWrite.by = q
                       /\ p \in lastWrite.pending
                       /\ calls[q].pc = "done"
                       /\ calls[q].op = "updateEntry"
                       /\ calls[q].result.status = "success"
                       /\ calls[q].context = c.context
                       /\ calls[q].input.id = c.input.id) =>
                          \A e \in Owned(entries, c) :
                             \E e2 \in entries' :
                                /\ e2.id = e.id
                                /\ e2.userId = e.userId
                                /\ e2.createdAt = e.createdAt
                                /\ \A k \in PatchableKeys :
                                     e2[k] = IF Names(c.input, k) THEN Given(c.input, k)
                                             ELSE IF Names(calls[q].input, k)
                                                  THEN Given(calls[q].input, k)
                                             ELSE e[k]
      ]_vars

\* Two updates raced on one entry: the first named title and entryDate, the second,
\* which ran last, named title only; another user's entry is there too.
C9_Witness ==
    \E p \in Procs, q \in Procs :
        /\ p # q
        /\ lastWrite.by = p
        /\ lastWrite.raced
        /\ lastWrite.op = "updateEntry"
        /\ calls[p].pc = "done"
        /\ calls[q].pc = "done"
        /\ calls[q].op = "updateEntry"
        /\ calls[q].result.status = "success"
        /\ calls[q].context = calls[p].context
        /\ calls[q].input.id = calls[p].input.id
        /\ Names(calls[q].input, "entryDate")
        /\ ~Names(calls[p].input, "entryDate")
        /\ \E e \in Owned(entries, calls[p]) : e.title = "a" /\ e.entryDate = TicksPerDay
        /\ \E e \in entries : e.userId # calls[p].context.user

\* C10: an update or delete statement that finds its entry gone (deleted after the
\* ownership load) changes nothing, so the entry stays absent, and the call still
\* returns success.
C10_WriteAfterDelete ==
    [][\A p \in Procs :
          ((UpdateStep(p) \/ DeleteStep(p)) /\ Owned(entries, calls[p]) = {}) =>
              /\ entries' = entries
              /\ prompts' = prompts
              /\ calls'[p].result = IF calls[p].op = "updateEntry"
                                    THEN Success([id |-> calls[p].input.id])
                                    ELSE Success(<<>>)
      ]_vars

\* An update returned success for an entry that a racing delete had removed.
C10_Witness ==
    \E p \in Procs, q \in Procs :
        /\ p # q
        /\ lastWrite.by = p
        /\ lastWrite.raced
        /\ calls[p].pc = "done"
        /\ calls[p].op = "updateEntry"
        /\ calls[p].result.status = "success"
        /\ calls[q].pc = "done"
        /\ calls[q].op = "deleteEntry"
        /\ calls[q].result.status = "success"
        /\ calls[q].input.id = calls[p].input.id
        /\ \A e \in entries : e.id # calls[p].input.id

====
